---- MODULE Spec2Model ----
(***************************************************************************)
(* ogma: process_expression, the process-wide FsCache and its two          *)
(* background threads, parse and print_table (src/ogma/src/lib.rs).        *)
(*                                                                         *)
(* Time is counted in minutes: LIFESPAN is 3 minutes in the source; the    *)
(* DEBOUNCE sleeps (5 ms, 25 ms) are shorter than one unit, so they are    *)
(* steps that last at least zero units.  A sleep only gives a lower bound  *)
(* on the time a thread is away, so threads interleave freely.             *)
(***************************************************************************)
EXTENDS Integers, Sequences, FiniteSets, TLC

\* ---------------------------------------------------------------- bounds
MaxTime == 4
MaxChanges == 1
MaxCalls == 3
MaxBatch == 2
MaxRows == 40
MaxCols == 9

\* ------------------------------------------------------- program constants
LIFESPAN == 3
ROWS_LIM == 30
COLS_LIM == 7

\* Option::None, in the shape of a value so that the two compare.
None == [ty |-> "None", ver |-> 0]

\* Callers of process_expression (independent foreground call stacks).
Callers == {1, 2}

\* A path is a sequence of character codes: "A" = <<65>>, "a" = <<97>>,
\* "b" = <<98>>.  The file system is case sensitive.
Paths == {<<65>>, <<97>>, <<98>>}

\* Roots handed to process_expression; "nx" does not exist on disk.
GoodRoots == {"r1", "r2"}
Roots == GoodRoots \cup {"nx"}

Types == {"Table", "Str"}

\* crate::types::Value: the variant it holds and the content it was built from.
Values == [ty : Types, ver : 0..(MaxChanges + MaxBatch)]

\* ------------------------------------------------------------ pure helpers
\* char::to_lowercase on the ASCII range.
ToLowerChar(ch) == IF ch >= 65 /\ ch <= 90 THEN ch + 32 ELSE ch

\* path.display().to_string().to_lowercase()
path_to_str(path) == [i \in DOMAIN path |-> ToLowerChar(path[i])]

\* Key::from with the type left out of the key.
KeyIgnoresType(path, T) == <<path_to_str(path), "Table">>

\* Key::from keyed by the path as given, without path_to_str.
KeyKeepsCase(path, T) == <<path, T>>

\* Key::from::<T>(path)
Key(path, T) == <<path_to_str(path), T>>

\* Every (path string, type) pair a key can be.
Keys == {<<path_to_str(p), T>> : p \in Paths, T \in Types}

\* Path::canonicalize: Ok for a directory that exists, Err otherwise.
canonicalize(root) == IF root \in GoodRoots THEN root ELSE "Err"

\* An absolute path is the root it lies under and the path below it.
\* Path::strip_prefix(canon_root): Ok(the part below the root), Err otherwise.
strip_prefix(abs, canon_root) == [ok |-> abs[1] = canon_root, path |-> abs[2]]

\* T::try_from(value): succeeds exactly on T's own variant.
try_from(T, value) == IF value.ty = T THEN value ELSE None

\* HashMap::get_mut(&key): the entry stored under key, if any.
Lookup(m, key) == {e \in m : e.key = key}

\* FsCache::get stamping every entry of the map on a hit.
FsCacheGetTouchesAll(m, path, T, t) ==
    LET hit == Lookup(m, Key(path, T))
    IN  IF hit = {}
        THEN [map |-> m, ret |-> None]
        ELSE [map |-> {[e EXCEPT !.ts = t] : e \in m},
              ret |-> try_from(T, (CHOOSE x \in hit : TRUE).val)]

\* FsCache::get without `x.0 = Instant::now()`: a hit leaves the timestamp.
FsCacheGetNoTouch(m, path, T, t) ==
    LET hit == Lookup(m, Key(path, T))
    IN  IF hit = {}
        THEN [map |-> m, ret |-> None]
        ELSE [map |-> m, ret |-> try_from(T, (CHOOSE x \in hit : TRUE).val)]

\* FsCache::get, after the sleep: the map with the hit entry's timestamp
\* set to now, and the value returned.
FsCacheGet(m, path, T, t) ==
    LET key == Key(path, T)
        hit == Lookup(m, key)
    IN  IF hit = {}
        THEN [map |-> m, ret |-> None]
        ELSE LET e == CHOOSE x \in hit : TRUE
             IN  [map |-> (m \ hit) \cup {[key |-> key, ts |-> t, val |-> e.val]},
                  ret |-> try_from(T, e.val)]

\* FsCache::insert keyed by the path as given, without path_to_str.
FsCacheInsertKeepsCase(m, path, T, value, t) ==
    {e \in m : e.key # <<path, T>>} \cup {[key |-> <<path, T>>, ts |-> t, val |-> value]}

\* FsCache::insert: HashMap::insert replaces the entry stored under the key.
FsCacheInsert(m, path, T, value, t) ==
    LET key == Key(path, T)
    IN  {e \in m : e.key # key} \cup {[key |-> key, ts |-> t, val |-> value]}

\* FsCache::remove_expired that also stamps the entries it keeps.
remove_expired_restamps(m, age, t) ==
    {[e EXCEPT !.ts = t] : e \in {x \in m : t - x.ts < age}}

\* FsCache::remove_expired
remove_expired(m, age, t) == {e \in m : t - e.ts < age}

\* FsCache::remove_path_changes comparing the paths as given, without
\* path_to_str.
remove_path_changes_keeps_case(m, paths) ==
    IF paths # {} THEN {e \in m : e.key[1] \notin paths} ELSE m

\* FsCache::remove_path_changes
remove_path_changes(m, paths) ==
    LET strs == {path_to_str(p) : p \in paths}
    IN  IF strs # {} THEN {e \in m : e.key[1] \notin strs} ELSE m


\* ------------------------------------------------ expressions (other modules)
\* The source text handed to process_expression, by what the later steps
\* make of it.  "open" is `open <path>` materialised as the requested type.
Exprs == {"bad syntax", "cmd --help", "unknown cmd", "open"}

\* parsing::expression(expr, loc, defs)
ParseOk(expr) == expr # "bad syntax"

\* hir::handle_help(&expr, defs)
HelpOk(expr) == expr # "cmd --help"

\* hir::construct_evaluator(I::as_type(), expr, defs, vars)
CompileOk(expr) == expr # "unknown cmd"

\* The steps of process_expression, in source order.
StepOrder == <<"init", "parse", "help", "compile", "eval">>

\* ------------------------------------------------------------------ events
\* notify::DebouncedEvent, with absolute paths below the watched root.
EventKinds == {"Write", "Create", "Remove", "Rename", "Chmod"}

\* The match in watch_fs without the `_ => ()` arm: every event inserts the
\* paths it carries.
EventTargetsAll(ev) == {ev.a, ev.b}

\* The match in watch_fs with Rename(a, b) inserting only a.
EventTargetsRenameSource(ev) ==
    IF ev.kind \in {"Write", "Create", "Remove", "Rename"} THEN {ev.a} ELSE {}

\* The match in watch_fs: the paths one event adds to the batch set.
EventTargets(ev) ==
    CASE ev.kind \in {"Write", "Create", "Remove"} -> {ev.a}
      [] ev.kind = "Rename" -> {ev.a, ev.b}
      [] OTHER -> {}

\* ---------------------------------------------------------------- printing
\* A ::table::DataTable by its shape: every row has cols_len cells.
Tables == [rows_len : 0..MaxRows, cols_len : 0..MaxCols, header : BOOLEAN]

\* A cell of the text table: an entry of the table, formatted by fmt_cell,
\* or one of the markers ("<n> cols elided", "<n> rows elided", "...").
Entry(r, c) == [kind |-> "entry", r |-> r, c |-> c]
ColsElided(n) == [kind |-> "cols elided", r |-> 0, c |-> n]
RowsElided(n) == [kind |-> "rows elided", r |-> n, c |-> 0]
Dots == [kind |-> "...", r |-> 0, c |-> 0]

\* table.rows(): the rows in order, each the iterator of its entries.
rows(t) == [r \in 1..t.rows_len |-> [c \in 1..t.cols_len |-> Entry(r, c)]]

\* DataTable::is_empty(): no rows or no columns.
is_empty(t) == t.rows_len = 0 \/ t.cols_len = 0

\* Iterator::take(n): the first n items, fewer if the iterator ends.
Take(it, n) == SubSeq(it, 1, IF n < Len(it) THEN n ELSE Len(it))

\* Iterator::skip(n), and what by_ref() leaves behind a take(n).
Skip(it, n) == SubSeq(it, (IF n < Len(it) THEN n ELSE Len(it)) + 1, Len(it))

\* usize a - b; a negative result stands for the underflow (a panic with
\* overflow checks, a wrap to a huge count without them).
usize_sub(a, b) == a - b

\* fmt_row that does not push the marker cell.
fmt_row_no_marker(row, limit_col, cols_len, header) ==
    IF limit_col
    THEN Take(row, 3) \o Skip(Skip(row, 3), usize_sub(cols_len, 6))
    ELSE Take(row, cols_len)

\* fmt_row(row, limit_col, cols_len, fmtr, header)
fmt_row(row, limit_col, cols_len, header) ==
    LET take == IF limit_col THEN 3 ELSE cols_len
        skip == IF limit_col THEN usize_sub(cols_len, 6) ELSE 0
        cols == Take(row, take)
        cells == Skip(row, take)
    IN  IF limit_col
        THEN cols \o <<IF header THEN ColsElided(usize_sub(cols_len, 6)) ELSE Dots>>
                  \o Skip(cells, skip)
        ELSE cols

\* The rows-elided row with one "..." per column of the table.
elided_row_full_width(t, limit_col) ==
    <<RowsElided(usize_sub(usize_sub(t.rows_len, 10), IF t.header THEN 1 ELSE 0))>>
        \o [i \in 1..t.cols_len |-> Dots]

\* once("<n> rows elided").chain(repeat_with("...").take(..))
elided_row(t, limit_col) ==
    <<RowsElided(usize_sub(usize_sub(t.rows_len, 10), IF t.header THEN 1 ELSE 0))>>
        \o [i \in 1..(IF limit_col THEN 6 ELSE usize_sub(t.cols_len, 1)) |-> Dots]

\* The subtractions print_table and fmt_row evaluate on t, as <<a, b>>.
Subtractions(t) ==
    LET limit_col == t.cols_len > COLS_LIM
        limit_row == t.rows_len > ROWS_LIM
    IN  (IF limit_col THEN {<<t.cols_len, 6>>} ELSE {})
        \cup (IF limit_row
              THEN {<<t.rows_len, 11>>, <<t.rows_len, 10>>,
                    <<t.rows_len - 10, IF t.header THEN 1 ELSE 0>>}
                   \cup (IF limit_col THEN {} ELSE {<<t.cols_len, 1>>})
              ELSE {})

\* What print_table hands to the writer: the header row (none or one) and
\* the rows added to the text table, in order.
print_table(t) ==
    IF is_empty(t)
    THEN [state |-> "table is empty", header |-> <<>>, rows |-> <<>>]
    ELSE IF \E x \in Subtractions(t) : x[1] < x[2]
    THEN [state |-> "underflow", header |-> <<>>, rows |-> <<>>]
    ELSE
    LET limit_col == t.cols_len > COLS_LIM
        limit_row == t.rows_len > ROWS_LIM
        all == rows(t)
        hdr == IF t.header /\ Len(all) > 0
               THEN <<fmt_row(all[1], limit_col, t.cols_len, TRUE)>> ELSE <<>>
        rows1 == IF t.header THEN Skip(all, 1) ELSE all
        take == IF limit_row THEN 5 ELSE t.rows_len
        skip == IF limit_row THEN usize_sub(t.rows_len, 11) ELSE 0
        first == Take(rows1, take)
        rows2 == Skip(rows1, take)
        last == Skip(rows2, skip)
        fmt(rs) == [i \in DOMAIN rs |-> fmt_row(rs[i], limit_col, t.cols_len, FALSE)]
    IN  [state |-> "table",
         header |-> hdr,
         rows |-> IF limit_row
                  THEN fmt(first) \o <<elided_row(t, limit_col)>> \o fmt(last)
                  ELSE fmt(first)]

NoTable == [rows_len |-> 0, cols_len |-> 0, header |-> FALSE]
NotPrinted == [state |-> "none", header |-> <<>>, rows |-> <<>>]

\* ------------------------------------------------------------------ parsing
\* Source text is a sequence of characters.
Inputs ==
    {pre \o post :
        pre \in {<<>>, <<"d", "e", "f">>, <<"d", "e", "f", " ">>, <<" ", "d", "e", "f", " ">>,
                 <<"d", "e", "f", "-", "t", "y">>, <<"d", "e", "f", "-", "t", "y", " ">>,
                 <<"D", "e", "f", " ">>, <<"d", "e", "f", "-">>},
        post \in {<<>>, <<"x">>, <<" ", "x">>}}

\* str::starts_with(prefix)
starts_with(str, prefix) ==
    /\ Len(str) >= Len(prefix)
    /\ SubSeq(str, 1, Len(prefix)) = prefix

\* The parsers of the parsing module and the ParseSuccess variant parse
\* wraps the result of each in.
Parsers == {"definition_impl", "definition_type", "expression"}
Variant(parser) ==
    CASE parser = "definition_impl" -> "Impl"
      [] parser = "definition_type" -> "Ty"
      [] parser = "expression" -> "Expr"

\* parse that falls back to parsing::expression when the definition parser
\* it chose fails.
parse_with_fallback(str, acc) ==
    LET branch == IF starts_with(str, <<"d", "e", "f", " ">>) THEN "definition_impl"
                  ELSE IF starts_with(str, <<"d", "e", "f", "-", "t", "y", " ">>)
                       THEN "definition_type"
                  ELSE "expression"
    IN  IF branch \in acc THEN [tried |-> <<branch>>, result |-> Variant(branch)]
        ELSE [tried |-> <<branch, "expression">>,
              result |-> IF "expression" \in acc THEN "Expr" ELSE "ParseFail"]

\* parse(input, defs): the parsers it calls, in order, and Ok(variant) or
\* Err(ParseFail).
parse(str, acc) ==
    LET branch == IF starts_with(str, <<"d", "e", "f", " ">>) THEN "definition_impl"
                  ELSE IF starts_with(str, <<"d", "e", "f", "-", "t", "y", " ">>)
                       THEN "definition_type"
                  ELSE "expression"
    IN  [tried |-> <<branch>>,
         result |-> IF branch \in acc THEN Variant(branch) ELSE "ParseFail"]

NotParsed == [tried |-> <<>>, result |-> "none"]

\* ------------------------------------------------------------------- state
VARIABLES
    map,        \* FSCACHE.map: the entries [key, ts, val] behind the mutex
    now,        \* Instant::now(), in minutes
    INIT,       \* the Once: "new", "running" or "done"
    cleaner,    \* the ogma-fs-cache-cleaner thread: [pc, wake]
    watcher,    \* the ogma-fs-watcher thread: [pc, root, watching, set]
    chan,       \* the mpsc channel wsx -> wrx
    fileVer,    \* content version of each file on disk
    nchg,       \* number of file system changes so far
    pc,         \* position of each caller in process_expression
    req,        \* arguments of each caller's current call
    ran,        \* the steps the current call has run, in order
    ret,        \* what the call returned
    got,        \* the value held by the evaluating stage
    ncalls,     \* number of calls of process_expression so far
    started,    \* history: <<thread name, number of the call that spawned it>>
    fresh,      \* history: per key, the value of the last insert not yet invalidated
    lastAcc,    \* history: per key, time of the last insert or hit
    evCount,    \* history: per path string, change events delivered for it
    insEv,      \* history: per key, evCount when its entry was inserted
    startEv,    \* history: per caller, evCount when its get started
    insAt,      \* history: per key, the file its entry was read from, the
                \* file's version at the insert, and whether a change made
                \* after the read had been applied before the insert
    table,      \* the Table handed to print_table
    out,        \* what print_table wrote
    input,      \* the text handed to parse
    accepts,    \* the parsers of the parsing module that accept input
    parsed      \* what parse returned

cacheVars == <<map, now>>
threadVars == <<INIT, cleaner, watcher, chan>>
fsVars == <<fileVer, nchg>>
callVars == <<pc, req, ran, ret, got, ncalls>>
histVars == <<started, fresh, lastAcc, evCount, insEv, startEv, insAt>>
printVars == <<table, out>>
parseVars == <<input, accepts, parsed>>
pureVars == <<printVars, parseVars>>
vars == <<cacheVars, threadVars, fsVars, callVars, histVars, pureVars>>

PathStrs == {path_to_str(p) : p \in Paths}
Files == GoodRoots \X Paths

\* Nothing returned yet.
NoRet == [kind |-> "none", by |-> "none", val |-> None, hit |-> FALSE]

\* The history marks of a key that has no live inserted value.
Mark(m) == [ty |-> m, ver |-> 0]

NoReq == [root |-> "r1", expr |-> "bad syntax", path |-> <<97>>, ty |-> "Table"]

\* The history of a key that has no entry.
NoIns == [file |-> <<"r1", <<97>>>>, ver |-> 0, late |-> FALSE]

\* FSCACHE and INIT as the statics are built; no thread, no call yet.
InitCache ==
    /\ map = {}
    /\ now = 0
    /\ INIT = "new"
    /\ cleaner = [pc |-> "none", wake |-> 0]
    /\ watcher = [pc |-> "none", root |-> "r1", watching |-> FALSE, set |-> {}]
    /\ chan = <<>>
    /\ fileVer = [f \in Files |-> 0]
    /\ nchg = 0
    /\ pc = [c \in Callers |-> "idle"]
    /\ req = [c \in Callers |-> NoReq]
    /\ ran = [c \in Callers |-> <<>>]
    /\ ret = [c \in Callers |-> NoRet]
    /\ got = [c \in Callers |-> None]
    /\ ncalls = 0
    /\ started = {}
    /\ fresh = [k \in Keys |-> Mark("never")]
    /\ lastAcc = [k \in Keys |-> 0]
    /\ evCount = [s \in PathStrs |-> 0]
    /\ insEv = [k \in Keys |-> 0]
    /\ startEv = [c \in Callers |-> 0]
    /\ insAt = [k \in Keys |-> NoIns]

\* Nothing was printed or parsed.
InitPrinting == table = NoTable /\ out = NotPrinted
InitParsing == input = <<>> /\ accepts = {} /\ parsed = NotParsed

Init == InitCache /\ InitPrinting /\ InitParsing


\* Whether the map holds an entry under key.
Present(m, key) == Lookup(m, key) # {}

\* History kept only for keys that still have an entry.
Trim(h, m) == [k \in Keys |-> IF Present(m, k) THEN h[k] ELSE 0]
TrimIns(h, m) == [k \in Keys |-> IF Present(m, k) THEN h[k] ELSE NoIns]

\* The file a caller's `open` reads: the path below the root of its call.
FileOf(c) == <<req[c].root, req[c].path>>

\* The path strings named by the events waiting in a channel.
Queued(events) ==
    {path_to_str(x[2]) : x \in
        UNION {IF events[i].kind = "Chmod" THEN {}
               ELSE {events[i].a, events[i].b} : i \in DOMAIN events}}

Fail(c, step) ==
    /\ pc' = [pc EXCEPT ![c] = "done"]
    /\ ret' = [ret EXCEPT ![c] = [kind |-> "Err", by |-> step, val |-> None, hit |-> FALSE]]

\* ------------------------------------------------------- process_expression
\* A call (the caller's previous call, if any, has returned) and
\* fscache::ensure_init(root): canonicalize, then INIT.call_once.  A caller
\* that finds the Once running waits for it, so it enters later.
Call(c, root, expr, path, T) ==
    /\ pc[c] \in {"idle", "done"}
    /\ ncalls < MaxCalls
    /\ ncalls' = ncalls + 1
    /\ req' = [req EXCEPT ![c] = [root |-> root, expr |-> expr, path |-> path, ty |-> T]]
    /\ ran' = [ran EXCEPT ![c] = <<"init">>]
    /\ got' = [got EXCEPT ![c] = None]
    /\ startEv' = [startEv EXCEPT ![c] = 0]
    /\ \/ /\ canonicalize(root) = "Err"         \* .expect(..) panics
          /\ pc' = [pc EXCEPT ![c] = "done"]
          /\ ret' = [ret EXCEPT ![c] = [kind |-> "Panic", by |-> "init", val |-> None, hit |-> FALSE]]
          /\ UNCHANGED <<INIT, cleaner, started>>
       \/ /\ canonicalize(root) # "Err"
          /\ INIT = "new"                       \* the closure runs: first spawn
          /\ INIT' = "running"
          /\ cleaner' = [pc |-> "sleep", wake |-> now + LIFESPAN]
          /\ started' = started \cup {<<"cleaner", ncalls + 1>>}
          /\ pc' = [pc EXCEPT ![c] = "spawn_watcher"]
          /\ ret' = [ret EXCEPT ![c] = NoRet]
       \/ /\ canonicalize(root) # "Err"
          /\ INIT = "done"                      \* call_once is a no-op
          /\ pc' = [pc EXCEPT ![c] = "parse"]
          /\ ret' = [ret EXCEPT ![c] = NoRet]
          /\ UNCHANGED <<INIT, cleaner, started>>
    /\ UNCHANGED <<cacheVars, watcher, chan, fsVars>>
    /\ UNCHANGED <<fresh, lastAcc, evCount, insEv, insAt, pureVars>>

\* The second spawn of the closure; the Once is done when the closure returns.
SpawnWatcher(c) ==
    /\ pc[c] = "spawn_watcher"
    /\ watcher' = [pc |-> "setup", root |-> canonicalize(req[c].root), watching |-> FALSE,
                    set |-> {}]
    /\ started' = started \cup {<<"watcher", ncalls>>}
    /\ INIT' = "done"
    /\ pc' = [pc EXCEPT ![c] = "parse"]
    /\ UNCHANGED <<cacheVars, cleaner, chan, fsVars, req, ran, ret, got, ncalls>>
    /\ UNCHANGED <<fresh, lastAcc, evCount, insEv, startEv, insAt, pureVars>>

\* The chain without the `?` after parsing::expression: a parse failure is
\* dropped and the later steps run.
StepsRunPastParse(expr) ==
    IF ~HelpOk(expr) THEN <<"parse", "help">>
    ELSE IF ~CompileOk(expr) THEN <<"parse", "help", "compile">>
    ELSE <<"parse", "help", "compile", "eval">>

\* The steps from the parse on, as the `?` chain runs them on expr: each
\* step runs only if the one before it returned Ok.
StepsRun(expr) ==
    IF ~ParseOk(expr) THEN <<"parse">>
    ELSE IF ~HelpOk(expr) THEN <<"parse", "help">>
    ELSE IF ~CompileOk(expr) THEN <<"parse", "help", "compile">>
    ELSE <<"parse", "help", "compile", "eval">>

\* parsing::expression(..)?; hir::handle_help(..)?; hir::construct_evaluator(..)?;
\* evaluator.eval(seed, cx): the `open` stage calls FSCACHE.get::<T>(path),
\* which first sleeps for DEBOUNCE * 5.  These steps touch nothing shared, so
\* they are one step of the caller.
Frontend(c) ==
    /\ pc[c] = "parse"
    /\ LET steps == StepsRun(req[c].expr)
           last == steps[Len(steps)]
       IN  /\ ran' = [ran EXCEPT ![c] = @ \o steps]
           /\ IF last = "eval"
              THEN /\ pc' = [pc EXCEPT ![c] = "get_lock"]
                   /\ startEv' = [startEv EXCEPT ![c] = evCount[path_to_str(req[c].path)]]
                   /\ UNCHANGED ret
              ELSE /\ Fail(c, last)
                   /\ UNCHANGED startEv
    /\ UNCHANGED <<cacheVars, threadVars, fsVars, req, got, ncalls>>
    /\ UNCHANGED <<started, fresh, lastAcc, evCount, insEv, insAt, pureVars>>

\* FsCache::get after the sleep: lock, look up, bump the timestamp, convert.
GetLock(c) ==
    /\ pc[c] = "get_lock"
    /\ LET r == FsCacheGet(map, req[c].path, req[c].ty, now)
           k == <<path_to_str(req[c].path), req[c].ty>>
       IN  /\ map' = r.map
           /\ got' = [got EXCEPT ![c] = r.ret]
           /\ IF r.ret # None
              THEN /\ pc' = [pc EXCEPT ![c] = "done"]
                   /\ ret' = [ret EXCEPT ![c] =
                                [kind |-> "Ok", by |-> "eval", val |-> r.ret, hit |-> TRUE]]
                   /\ lastAcc' = [lastAcc EXCEPT ![k] = now]
              ELSE /\ pc' = [pc EXCEPT ![c] = "read"]
                   /\ UNCHANGED <<ret, lastAcc>>
    /\ UNCHANGED <<now, threadVars, fsVars, req, ran, ncalls>>
    /\ UNCHANGED <<started, fresh, evCount, insEv, startEv, insAt, pureVars>>

\* The `open` stage on a miss: read and convert the file below root, or fail.
Read(c) ==
    /\ pc[c] = "read"
    /\ \/ /\ got' = [got EXCEPT ![c] =
                       [ty |-> req[c].ty, ver |-> fileVer[<<req[c].root, req[c].path>>]]]
          /\ pc' = [pc EXCEPT ![c] = "insert"]
          /\ UNCHANGED ret
       \/ /\ Fail(c, "eval")
          /\ UNCHANGED got
    /\ UNCHANGED <<cacheVars, threadVars, fsVars, req, ran, ncalls, histVars, pureVars>>

\* FSCACHE.insert::<T>(path, value), and the stage returns the value.
Insert(c) ==
    /\ pc[c] = "insert"
    /\ LET k == <<path_to_str(req[c].path), req[c].ty>>
       IN  /\ map' = FsCacheInsert(map, req[c].path, req[c].ty, got[c], now)
           /\ fresh' = [fresh EXCEPT ![k] = got[c]]
           /\ lastAcc' = [lastAcc EXCEPT ![k] = now]
           /\ insEv' = [insEv EXCEPT ![k] = evCount[k[1]]]
           /\ insAt' = [insAt EXCEPT ![k] =
                          [file |-> FileOf(c),
                           ver |-> fileVer[FileOf(c)],
                           late |-> /\ got[c].ver < fileVer[FileOf(c)]
                                    /\ evCount[k[1]] > startEv[c]
                                    /\ k[1] \notin Queued(chan)]]
    /\ pc' = [pc EXCEPT ![c] = "done"]
    /\ ret' = [ret EXCEPT ![c] = [kind |-> "Ok", by |-> "eval", val |-> got[c], hit |-> FALSE]]
    /\ UNCHANGED <<now, threadVars, fsVars, req, ran, got, ncalls>>
    /\ UNCHANGED <<started, evCount, startEv, pureVars>>

\* ------------------------------------------- clean_opened_cache_periodically
\* std::thread::sleep(LIFESPAN) returns: at least LIFESPAN has passed.
CleanerWake ==
    /\ cleaner.pc = "sleep"
    /\ now >= cleaner.wake
    /\ cleaner' = [cleaner EXCEPT !.pc = "sweep"]
    /\ UNCHANGED <<cacheVars, INIT, watcher, chan, fsVars, callVars, histVars, pureVars>>

\* FSCACHE.remove_expired(LIFESPAN), then the loop sleeps again.
CleanerSweep ==
    /\ cleaner.pc = "sweep"
    /\ map' = remove_expired(map, LIFESPAN, now)
    /\ cleaner' = [pc |-> "sleep", wake |-> now + LIFESPAN]
    /\ fresh' = [k \in Keys |->
                   IF fresh[k] \in Values /\ ~Present(map', k) THEN Mark("expired")
                   ELSE fresh[k]]
    /\ lastAcc' = Trim(lastAcc, map')
    /\ insEv' = Trim(insEv, map')
    /\ insAt' = TrimIns(insAt, map')
    /\ UNCHANGED <<now, INIT, watcher, chan, fsVars, callVars>>
    /\ UNCHANGED <<started, evCount, startEv, pureVars>>

\* ----------------------------------------------------------------- watch_fs
\* notify::watcher(wsx, DEBOUNCE) and watcher.watch(&canon_root, Recursive).
\* A failure of the first makes watch_fs return Err, and the thread's
\* .expect(..) panics; a failure of the second is dropped (let _ = ..).
WatcherSetup ==
    /\ watcher.pc = "setup"
    /\ \/ watcher' = [watcher EXCEPT !.pc = "dead"]
       \/ watcher' = [watcher EXCEPT !.pc = "loop", !.watching = TRUE]
       \/ watcher' = [watcher EXCEPT !.pc = "loop", !.watching = FALSE]
    /\ UNCHANGED <<cacheVars, INIT, cleaner, chan, fsVars, callVars, histVars, pureVars>>

\* The batch set after set.clear() and the match over wrx.try_iter(): the
\* paths the events waiting in the channel add to the cleared set.
Batch(set, events) ==
    LET cleared == set \ set
    IN  cleared \cup UNION {EventTargets(events[i]) : i \in DOMAIN events}

\* One round of the loop: sleep(DEBOUNCE), clear the set, collect the events
\* of the channel, strip the root and call FSCACHE.remove_path_changes.  The
\* round is one step: collecting touches only the thread's own set and the
\* head of the channel, so it commutes with what other threads do, and the
\* set is empty again (set.drain()) when the round ends.  A path that is not
\* below canon_root makes .unwrap() panic before the map is locked.
WatcherRound ==
    /\ watcher.pc = "loop"
    /\ LET set == Batch(watcher.set, chan)
           stripped == {strip_prefix(x, watcher.root) : x \in set}
           drain == {s.path : s \in stripped}
       IN  IF \E s \in stripped : ~s.ok
           THEN /\ watcher' = [watcher EXCEPT !.pc = "dead", !.set = set]
                /\ UNCHANGED <<map, fresh, lastAcc, insEv, insAt>>
           ELSE /\ watcher' = [watcher EXCEPT !.set = {}]      \* set.drain()
                /\ map' = remove_path_changes(map, drain)
                /\ fresh' = [k \in Keys |->
                               IF \E p \in drain : path_to_str(p) = k[1]
                               THEN Mark("changed") ELSE fresh[k]]
                /\ lastAcc' = Trim(lastAcc, map')
                /\ insEv' = Trim(insEv, map')
                /\ insAt' = TrimIns(insAt, map')
    /\ chan' = <<>>
    /\ UNCHANGED <<now, INIT, cleaner, fsVars, callVars>>
    /\ UNCHANGED <<started, evCount, startEv, pureVars>>

\* ------------------------------------------------------------- environment
\* Whether notify delivers events for paths below root to the channel.
Delivers(root) ==
    /\ watcher.pc = "loop"
    /\ watcher.watching
    /\ watcher.root = root

\* Something changes a file below root (for a rename, a becomes b), as one
\* of at most n changes.
FsChangeWithin(n, root, kind, a, b) ==
    /\ nchg < n
    /\ nchg' = nchg + 1
    /\ (kind = "Rename") = (a # b)
    /\ LET ev == [kind |-> kind, a |-> <<root, a>>, b |-> <<root, b>>]
           touched == IF kind = "Chmod" THEN {} ELSE {<<root, a>>, <<root, b>>}
           named == IF kind = "Chmod" THEN {} ELSE {path_to_str(a), path_to_str(b)}
       IN  /\ fileVer' = [f \in Files |-> IF f \in touched THEN fileVer[f] + 1 ELSE fileVer[f]]
           /\ IF Delivers(root)
              THEN /\ chan' = Append(chan, ev)
                   /\ evCount' = [s \in PathStrs |->
                                    IF s \in named THEN evCount[s] + 1 ELSE evCount[s]]
              ELSE UNCHANGED <<chan, evCount>>
    /\ UNCHANGED <<cacheVars, INIT, cleaner, watcher, callVars>>
    /\ UNCHANGED <<started, fresh, lastAcc, insEv, startEv, insAt, pureVars>>

FsChange(root, kind, a, b) == FsChangeWithin(MaxChanges, root, kind, a, b)

\* A minute passes.
Tick ==
    /\ now < MaxTime
    /\ now' = now + 1
    /\ UNCHANGED <<map, threadVars, fsVars, callVars, histVars, pureVars>>

\* ----------------------------------------------------------- specification
\* The steps of the callers, with the arguments of a call drawn from the
\* given sets.
Foreground(RS, ES, PS, TS) ==
    \E c \in Callers :
        \/ \E root \in RS, expr \in ES, path \in PS, T \in TS :
               Call(c, root, expr, path, T)
        \/ SpawnWatcher(c)
        \/ Frontend(c)
        \/ GetLock(c)
        \/ Read(c)
        \/ Insert(c)

Sweeper == CleanerWake \/ CleanerSweep

Watcher == WatcherSetup \/ WatcherRound

Changes(RS, KS, PS) ==
    \E root \in RS, kind \in KS, a \in PS, b \in PS : FsChange(root, kind, a, b)

\* Changes in quick succession, so that several events wait in the channel.
Burst(RS, KS, PS) ==
    \E root \in RS, kind \in KS, a \in PS, b \in PS :
        FsChangeWithin(MaxBatch, root, kind, a, b)

Next ==
    \/ Foreground(Roots, Exprs, Paths, Types)
    \/ Sweeper
    \/ Watcher
    \/ Changes(GoodRoots, EventKinds, Paths)
    \/ Tick

Spec == Init /\ [][Next]_vars

\* process_expression over every root and expression, and the start of the
\* two threads; nothing changes on disk.
NextProc ==
    \/ Foreground(Roots, Exprs, {<<97>>}, {"Table"})
    \/ Watcher

SpecProc == Init /\ [][NextProc]_vars

\* `open` calls below one root and the sweeper, as time passes.
NextTTL ==
    \/ Foreground({"r1"}, {"open"}, {<<97>>, <<98>>}, {"Table"})
    \/ Sweeper
    \/ Tick

SpecTTL == Init /\ [][NextTTL]_vars

\* `open` calls below one root, changes on disk below it, and the watcher.
NextCache ==
    \/ Foreground({"r1"}, {"open"}, Paths, Types)
    \/ Watcher
    \/ Changes({"r1"}, {"Write", "Rename", "Chmod"}, Paths)

SpecCache == Init /\ [][NextCache]_vars

\* `open a` as either type, writes to "a" and "b", and both threads.
NextThreads ==
    \/ Foreground({"r1"}, {"open"}, {<<97>>}, Types)
    \/ Sweeper
    \/ Watcher
    \/ Changes({"r1"}, {"Write"}, {<<97>>, <<98>>})
    \/ Tick

SpecThreads == Init /\ [][NextThreads]_vars

\* `open a` as a table, events of every kind on "a" and "b" below the
\* watched root, up to MaxBatch of them, and the watcher.
NextWatch ==
    \/ Foreground({"r1"}, {"open"}, {<<97>>}, {"Table"})
    \/ Watcher
    \/ Burst({"r1"}, EventKinds, {<<97>>, <<98>>})

SpecWatch == Init /\ [][NextWatch]_vars

\* `open a` below either root, the watcher, and writes to "a" below either
\* root once the watcher watches.  The watcher's loop never ends, so a round
\* that has events to apply is eventually run.
WatchedChanges ==
    /\ watcher.pc = "loop"
    /\ watcher.watching
    /\ Changes(GoodRoots, {"Write"}, {<<97>>})

NextRoots ==
    \/ Foreground(GoodRoots, {"open"}, {<<97>>}, {"Table"})
    \/ Watcher
    \/ WatchedChanges

SpecRoots == Init /\ [][NextRoots]_vars /\ WF_vars(WatcherRound)

\* ------------------------------------------------------ print_table, parse
\* print_table(&table, wtr)
PrintTable ==
    /\ out = NotPrinted
    /\ out' = print_table(table)
    /\ UNCHANGED <<cacheVars, threadVars, fsVars, callVars, histVars, table, parseVars>>

\* Tables of every shape up to MaxRows by MaxCols, each printed once.
InitPrint == InitCache /\ InitParsing /\ table \in Tables /\ out = NotPrinted

SpecPrint == InitPrint /\ [][PrintTable]_vars

\* parse(input, defs)
Parse ==
    /\ parsed = NotParsed
    /\ parsed' = parse(input, accepts)
    /\ UNCHANGED <<cacheVars, threadVars, fsVars, callVars, histVars, printVars, input, accepts>>

\* Every input with every outcome of the parsers on it, each parsed once.
InitParse ==
    /\ InitCache /\ InitPrinting
    /\ input \in Inputs /\ accepts \in SUBSET Parsers /\ parsed = NotParsed

SpecParse == InitParse /\ [][Parse]_vars

\* ==================================================================== claims
\* The key a caller's current call reads and writes.
KeyOf(c) == <<path_to_str(req[c].path), req[c].ty>>

\* ------------------------------------------------------------------------ C5
\* C5: across any number of ensure_init calls exactly one cleaner thread and
\* one watcher thread are ever started, both by the first call; no thread
\* exists before the first call.  Calls are numbered in the order they enter
\* ensure_init.
C5_StartedOnceByFirstCall ==
    /\ Cardinality({s \in started : s[1] = "cleaner"}) <= 1
    /\ Cardinality({s \in started : s[1] = "watcher"}) <= 1
    /\ \A s \in started : s[2] = 1
    /\ ncalls = 0 => started = {} /\ cleaner.pc = "none" /\ watcher.pc = "none"

\* ------------------------------------------------------------------------ C7
\* C7: every call returns Ok(Value) or Err(Error); none panics, whatever the
\* root.
C7_NoCallPanics == \A c \in Callers : ret[c].kind \in {"none", "Ok", "Err"}

\* ------------------------------------------------------------------------ C9
\* C9: once started, the sweeper and the watcher stay alive: no watcher-setup
\* outcome, event or path makes either loop exit or panic.
C9_ThreadsStayAlive ==
    \A s \in started :
        /\ s[1] = "cleaner" => cleaner.pc \in {"sleep", "sweep"}
        /\ s[1] = "watcher" => watcher.pc \in {"setup", "loop"}

\* ----------------------------------------------------------------------- C10
\* The step of process_expression that fails on the expression, if any.
FailsAt(expr) ==
    CASE ~ParseOk(expr) -> "parse"
      [] ~HelpOk(expr) -> "help"
      [] ~CompileOk(expr) -> "compile"
      [] OTHER -> "none"

\* C10: the steps run in the order init, parse, help, compile, eval and stop
\* at the first failing step: after a parse failure nothing is compiled or
\* evaluated, after a help request or a compile failure nothing is evaluated,
\* the Error is that of the first failing step, and init runs on every call.
C10_StepsInOrderFailFast ==
    \A c \in Callers :
        /\ ran[c] = SubSeq(StepOrder, 1, Len(ran[c]))
        /\ pc[c] # "idle" => Len(ran[c]) >= 1 /\ ran[c][1] = "init"
        /\ ret[c].kind = "Err" => ret[c].by = ran[c][Len(ran[c])]
        /\ ret[c].kind = "Ok" => ran[c] = StepOrder
        /\ pc[c] = "done" /\ ret[c].kind # "Panic" /\ FailsAt(req[c].expr) # "none" =>
              /\ ret[c].kind = "Err"
              /\ ret[c].by = FailsAt(req[c].expr)
        /\ FailsAt(req[c].expr) = "parse" =>
              \A i \in DOMAIN ran[c] : ran[c][i] \notin {"help", "compile", "eval"}
        /\ FailsAt(req[c].expr) \in {"help", "compile"} =>
              \A i \in DOMAIN ran[c] : ran[c][i] # "eval"

\* A compile failure was returned while the other caller's call evaluated.
C10_Witness ==
    \E c, d \in Callers :
        /\ pc[c] = "done"
        /\ ret[c] = [kind |-> "Err", by |-> "compile", val |-> None, hit |-> FALSE]
        /\ ran[c] = <<"init", "parse", "help", "compile">>
        /\ pc[d] = "done" /\ ret[d].kind = "Ok"


\* ------------------------------------------------------------ steps by name
\* Caller c's FsCache::get returns in this step.
GetStep(c) == pc[c] = "get_lock" /\ pc'[c] # "get_lock"

\* Caller c's FsCache::insert runs in this step.
InsertStep(c) == pc[c] = "insert" /\ pc'[c] = "done"

\* The sweeper's remove_expired(LIFESPAN) runs in this step.
SweepStep == cleaner.pc = "sweep" /\ cleaner'.pc = "sleep"

\* The watcher finishes a round in this step.
RoundStep == watcher.pc = "loop" /\ watcher'.pc = "loop" /\ chan' = <<>> /\ map' \subseteq map

\* The path strings the events waiting in the channel name.
Named(events) ==
    {path_to_str(x[2]) : x \in
        UNION {IF events[i].kind = "Chmod" THEN {}
               ELSE IF events[i].kind = "Rename" THEN {events[i].a, events[i].b}
               ELSE {events[i].a} : i \in DOMAIN events}}

\* ------------------------------------------------------------------------ C1
\* C1: after insert(p, T, v), until a sweep evicts the entry, an invalidation
\* names p or a later insert for (p, T) happens, every get(p, T) returns v,
\* whatever other callers and the two threads do in between (p is taken as
\* the cache takes it: by its path string).
C1_GetReturnsInserted ==
    [][\A c \in Callers :
          GetStep(c) /\ fresh[KeyOf(c)] \in Values => got'[c] = fresh[KeyOf(c)]]_vars

\* A get hit the inserted value while the same path is cached as the other type.
C1_Witness ==
    \E c \in Callers :
        /\ pc[c] = "done" /\ ret[c].hit
        /\ ret[c].val = fresh[KeyOf(c)]
        /\ \E k \in Keys : k # KeyOf(c) /\ k[1] = KeyOf(c)[1] /\ Present(map, k)

\* ------------------------------------------------------------------------ C2
\* C2: after remove_path_changes was called with paths containing p, get(p, T)
\* returns nothing for every T until a later insert for (p, T); the call
\* removes every entry cached for p, whatever its type.
C2_InvalidatedUntilReinsert ==
    [][/\ \A c \in Callers :
             GetStep(c) /\ fresh[KeyOf(c)] = Mark("changed") => got'[c] = None
       /\ RoundStep => \A e \in map' : e.key[1] \notin Named(chan)]_vars

\* A get missed on a key whose path an applied change had named, while the
\* key had held a value before.
C2_Witness ==
    \E c \in Callers :
        /\ pc[c] = "read"
        /\ fresh[KeyOf(c)] = Mark("changed")
        /\ evCount[KeyOf(c)[1]] > 0
        /\ \E d \in Callers : d # c /\ pc[d] = "done" /\ ~ret[d].hit /\ ret[d].kind = "Ok"
                                   /\ KeyOf(d) = KeyOf(c)

\* ------------------------------------------------------------------------ C3
\* The events waiting in the channel name the path string s.
Pending(s) == s \in Named(chan)

\* Caller c's get returns, in this step, an entry cached before a change
\* event for its path that was delivered before the get began.
StaleHit(c) ==
    /\ GetStep(c)
    /\ got'[c] # None
    /\ insEv[KeyOf(c)] < startEv[c]

C4_SweepEvictsByAge ==
    [][SweepStep =>
          \A k \in Keys :
              Present(map, k) =>
                  /\ now - lastAcc[k] > LIFESPAN => ~Present(map', k)
                  /\ now - lastAcc[k] < LIFESPAN => Lookup(map', k) = Lookup(map, k)]_vars

\* A sweep has just run at this minute: it evicted one key and kept another
\* that was accessed before the sweep, less than the lifespan ago.
C4_Witness ==
    /\ cleaner.pc = "sleep" /\ cleaner.wake = now + LIFESPAN
    /\ \E k1, k2 \in Keys :
          /\ fresh[k1] = Mark("expired")
          /\ Present(map, k2) /\ lastAcc[k2] < now /\ now - lastAcc[k2] < LIFESPAN

\* ------------------------------------------------------------------------ C6
\* C6: the map never holds more than one entry per (path string, type), and
\* the entry of a key holds the value of an insert: after two evaluations
\* missed on the same key and both inserted, it holds the value inserted last.
C6_OneEntryPerKey ==
    /\ \A e1, e2 \in map :
          path_to_str(e1.key[1]) = path_to_str(e2.key[1]) /\ e1.key[2] = e2.key[2]
              => e1 = e2
    /\ \A e \in map : e.key \in Keys /\ e.val = fresh[e.key]

\* Both callers missed on the same key, both inserted, and one entry is there.
C6_Witness ==
    \E c, d \in Callers :
        /\ c # d /\ KeyOf(c) = KeyOf(d)
        /\ pc[c] = "insert" /\ pc[d] = "done" /\ ~ret[d].hit /\ ret[d].kind = "Ok"
        /\ got[c] # ret[d].val
        /\ Cardinality(Lookup(map, KeyOf(c))) = 1

\* ------------------------------------------------------------------------ C8
\* C8: no step of the sweeper or of the watcher adds a key, replaces a value
\* or changes a timestamp: under their steps the set of entries only shrinks.
C8_ThreadsOnlyEvict == [][Sweeper \/ Watcher => map' \subseteq map]_vars

\* Both threads have evicted: one key expired, another was invalidated.
C8_Witness ==
    \E k1, k2 \in Keys : fresh[k1] = Mark("expired") /\ fresh[k2] = Mark("changed")

\* ------------------------------------------------------- printed tables
\* The data rows of the table: all rows but the header row.
DataRows(t) == IF t.header THEN t.rows_len - 1 ELSE t.rows_len

\* The positions in the printed rows of the "N rows elided" rows.
ElidedAt == {i \in DOMAIN out.rows : out.rows[i][1].kind = "rows elided"}

\* The printed row is made of entries of row r of the table.
ShowsRow(printed, r) ==
    /\ printed[1] = Entry(r, 1)
    /\ \A j \in DOMAIN printed : printed[j].kind = "entry" => printed[j].r = r

\* The printed row carries a column-elision marker cell.
HasColMarker(printed) ==
    \E j \in DOMAIN printed : printed[j].kind \in {"cols elided", "..."}

\* ----------------------------------------------------------------------- C11
\* C11: for a table with a header row and more rows than the row limit,
\* print_table emits the header, the first 5 data rows, exactly one
\* "N rows elided" row, and the last 5 data rows; when the column count also
\* exceeds the column limit, every retained row carries a column-elision
\* marker cell.
C11_ElidedRendering ==
    out.state # "none" /\ table.header /\ table.rows_len > ROWS_LIM /\ table.cols_len > 0 =>
        /\ out.state = "table"
        /\ Len(out.header) = 1 /\ ShowsRow(out.header[1], 1)
        /\ Len(out.rows) = 11
        /\ ElidedAt = {6}
        /\ \A i \in 1..5 : ShowsRow(out.rows[i], 1 + i)
        /\ \A i \in 1..5 : ShowsRow(out.rows[6 + i], table.rows_len - 5 + i)
        /\ table.cols_len > COLS_LIM =>
              /\ HasColMarker(out.header[1])
              /\ \A i \in DOMAIN out.rows : i # 6 => HasColMarker(out.rows[i])

\* A 40-row table with a header and more columns than the limit was printed
\* with its rows elided.
C11_Witness ==
    /\ table.header /\ table.rows_len = 40 /\ table.cols_len > COLS_LIM
    /\ out.state = "table" /\ ElidedAt # {}

\* ----------------------------------------------------------------------- C18
\* C18: for every table with more than ROWS_LIM rows, with or without a
\* header, print_table shows exactly 5 leading and exactly 5 trailing data
\* rows, and the N of "N rows elided" is the number of data rows not shown:
\* 5 + 5 + N is the number of data rows.
C18_RowsAccounted ==
    out.state = "table" /\ table.rows_len > ROWS_LIM =>
        \E at \in ElidedAt :
            LET leading == at - 1
                trailing == Len(out.rows) - at
                N == out.rows[at][1].r
            IN  /\ ElidedAt = {at}
                /\ leading = 5
                /\ trailing = 5
                /\ N = DataRows(table) - leading - trailing
                /\ 5 + 5 + N = DataRows(table)

\* ----------------------------------------------------------------------- C19
\* C19: every row print_table emits for a non-empty table has the same number
\* of cells.  When cols_len exceeds COLS_LIM the header, each data row and the
\* rows-elided row have exactly 7 cells (first 3 columns, one marker cell,
\* last 3 columns) and the header marker reports cols_len - 6 elided columns;
\* otherwise every emitted row has exactly cols_len cells.  No subtraction in
\* the row or column arithmetic underflows.
C19_SameCellCount ==
    out.state # "none" /\ table.rows_len > 0 /\ table.cols_len > 0 =>
        LET emitted == {out.header[i] : i \in DOMAIN out.header}
                           \cup {out.rows[i] : i \in DOMAIN out.rows}
            C == table.cols_len
        IN  /\ out.state = "table"
            /\ emitted # {}
            /\ \A x \in Subtractions(table) : x[1] >= x[2]
            /\ IF C > COLS_LIM
               THEN /\ \A row \in emitted : Len(row) = 7
                    /\ \A row \in emitted :
                          row[1].kind = "entry" =>
                              /\ \A j \in 1..3 : row[j] = Entry(row[1].r, j)
                              /\ row[4].kind \in {"cols elided", "..."}
                              /\ \A j \in 1..3 : row[4 + j] = Entry(row[1].r, C - 3 + j)
                    /\ \A i \in DOMAIN out.header : out.header[i][4] = ColsElided(C - 6)
               ELSE \A row \in emitted : Len(row) = C

\* A table with no header, 31 rows and 8 columns was printed: both limits
\* are exceeded by one.
C19_Witness ==
    /\ ~table.header /\ table.rows_len = ROWS_LIM + 1 /\ table.cols_len = COLS_LIM + 1
    /\ out.state = "table" /\ Len(out.rows) > 10

\* ----------------------------------------------------------------------- C12
\* C12: parse dispatches on the leading keyword only.  Input starting with
\* "def " is parsed solely as a command definition, input starting with
\* "def-ty " solely as a type definition, every other input solely as an
\* expression; the cases exclude one another, the variant returned (Impl, Ty,
\* Expr) is that of the branch taken, and a failure of the chosen parser is
\* returned as ParseFail without trying another.
C12_DispatchOnKeyword ==
    parsed # NotParsed =>
        LET def == Len(input) >= 4 /\ SubSeq(input, 1, 4) = <<"d", "e", "f", " ">>
            defty == /\ Len(input) >= 7
                     /\ SubSeq(input, 1, 7) = <<"d", "e", "f", "-", "t", "y", " ">>
            chosen == parsed.tried[1]
        IN  /\ Len(parsed.tried) = 1
            /\ ~(def /\ defty)
            /\ def => chosen = "definition_impl" /\ parsed.result \in {"Impl", "ParseFail"}
            /\ defty => chosen = "definition_type" /\ parsed.result \in {"Ty", "ParseFail"}
            /\ ~def /\ ~defty => chosen = "expression" /\ parsed.result \in {"Expr", "ParseFail"}
            /\ parsed.result = "ParseFail" <=> chosen \notin accepts

\* "def x" was not accepted as a command definition, though it would parse as
\* an expression, and parse returned ParseFail.
C12_Witness ==
    /\ input = <<"d", "e", "f", " ", "x">>
    /\ accepts = {"expression"}
    /\ parsed.result = "ParseFail"

\* ----------------------------------------------------------------------- C13
\* C13: cache keys are (case-normalised path, requested type).  A get(p, T)
\* hits exactly when an insert(p', T, v) whose p' equals p after lower-casing
\* is still cached (fresh is kept per lower-cased path and type), and the
\* entries of one path under two types are independent: an insert under T1
\* leaves the entry under every other type as it was.
C13_KeyIsLowerPathAndType ==
    [][\A c \in Callers :
          /\ GetStep(c) => (got'[c] # None <=> fresh[KeyOf(c)] \in Values)
          /\ InsertStep(c) =>
                \A k \in Keys : k[2] # req[c].ty => Lookup(map', k) = Lookup(map, k)]_vars

\* A get of "A" hit the entry inserted for "a", while "a" is cached under
\* the other type as well.
C13_Witness ==
    \E c \in Callers :
        /\ pc[c] = "done" /\ ret[c].hit /\ req[c].path = <<65>>
        /\ insAt[KeyOf(c)].file[2] = <<97>>
        /\ \E k \in Keys : k[1] = <<97>> /\ k[2] # req[c].ty /\ Present(map, k)

\* ----------------------------------------------------------------------- C14
\* C14: a round of the watcher invalidates p for each Write(p), Create(p) and
\* Remove(p) collected, both a and b for each Rename(a, b), and nothing for
\* any other event; every target collected in the round is passed to
\* remove_path_changes in that round, so exactly the entries of the named
\* paths go, and the batch set is empty when the next round starts.
C14_RoundAppliesItsBatch ==
    [][WatcherRound =>
          /\ watcher.set = {}
          /\ map' = {e \in map : e.key[1] \notin Named(chan)}
          /\ chan' = <<>>
          /\ watcher'.set = {}]_vars

\* A round has applied a single Rename of "a" and "b": the entry cached for
\* "a" is gone and both paths count a delivered event.
C14_Witness ==
    /\ watcher.pc = "loop" /\ chan = <<>> /\ nchg = 1
    /\ evCount[<<97>>] = 1 /\ evCount[<<98>>] = 1
    /\ fresh[<<<<97>>, "Table">>] = Mark("changed")

\* ----------------------------------------------------------------------- C15
\* C15: a hit changes only the last-access timestamp of the entry hit: a get
\* adds and removes no key, changes no stored value and no other entry's
\* timestamp, and a miss changes nothing.  The value stored under a key stays
\* the inserted one until the entry is removed or the key is inserted again.
C15_GetOnlyTouchesHitEntry ==
    [][/\ \A c \in Callers :
             GetStep(c) =>
                 /\ {e.key : e \in map'} = {e.key : e \in map}
                 /\ \A e \in map : e.key # KeyOf(c) => e \in map'
                 /\ \A e \in map, f \in map' : e.key = f.key => e.val = f.val
                 /\ got'[c] = None => map' = map
       /\ \A k \in Keys :
             /\ Present(map, k) /\ Present(map', k)
             /\ ~ \E c \in Callers : InsertStep(c) /\ KeyOf(c) = k
             => \A e \in Lookup(map, k), f \in Lookup(map', k) : e.val = f.val]_vars

\* A get has just hit its entry, stamped now, while the entry of another
\* key still carries an earlier timestamp.
C15_Witness ==
    \E c \in Callers :
        /\ pc[c] = "done" /\ ret[c].hit
        /\ \E e \in Lookup(map, KeyOf(c)) : e.ts = now /\ e.val = ret[c].val
        /\ \E f \in map : f.key # KeyOf(c) /\ f.ts < now

\* ----------------------------------------------------------------------- C16
\* C16: the cache never retains a value older than the last invalidation
\* applied for its path.  If an evaluation misses on (p, T), reads the file,
\* and the watcher applies a change event for p before that evaluation calls
\* insert(p, T, v), then the v read before the change is not served by a
\* later get(p, T).
C16_NoValueOlderThanInvalidation ==
    [][\A c \in Callers :
          GetStep(c) /\ got'[c] # None => ~insAt[KeyOf(c)].late]_vars

\* ----------------------------------------------------------------------- C17
\* The file the entry of key k was read from has changed on disk since the
\* entry was inserted.
ChangedSince(k) == Present(map, k) /\ fileVer[insAt[k].file] > insAt[k].ver

====
